---------------------------- MODULE Spec2Model ----------------------------
(***************************************************************************)
(* Model of the chat-session sidebar (src/src/app/component/sidebar.tsx):  *)
(* the session-list fetch with superseded-request cancellation, the        *)
(* auto-title effect, session selection and session creation.              *)
(*                                                                         *)
(* Execution model: one UI event loop.  A handler runs up to its next      *)
(* await in one step.  The continuation of a cancelled request, the        *)
(* continuation of handleCreate after its awaited refresh, and the         *)
(* auto-title effect of a render are queued work that runs before the next *)
(* external event (click, property change, network response); the guard    *)
(* Quiet expresses this.                                                   *)
(*                                                                         *)
(* Strings are sequences of one-character strings.  The history variables  *)
(* op, arg, calls and net describe the handler step that produced the      *)
(* current state: its name, its parameters, the selection-callback         *)
(* invocations it made and the network requests it issued.                 *)
(***************************************************************************)
EXTENDS Integers, Sequences, FiniteSets, TLC

VARIABLES
    mounted,            \* the component instance is mounted
    userId,             \* (auth as any)?.user?.id, NoUser when absent
    currentSessionId,   \* prop, owned by the embedding application
    lastUserMessage,    \* prop, owned by the embedding application
    sessions,           \* useState<ChatSession[]>
    loading,            \* useState(false)
    error,              \* useState<string | null>
    creating,           \* useState(false)
    cancelRef,          \* useRef<CancelTokenSource | null>: id of the stored source, 0 = null
    latest,             \* history: id of the most recently issued session-list request
    fetches,            \* session-list requests whose continuation has not run yet
    createOp,           \* the handleCreate invocation in progress
    selects,            \* message requests in flight (handleSelect)
    patches,            \* title patch requests in flight
    downloads,          \* number of transcript requests in flight (handleDownload)
    effectPending,      \* a dependency of the auto-title effect changed since it last ran
    op, arg, calls, net \* history of the last handler step

vars == << mounted, userId, currentSessionId, lastUserMessage, sessions, loading,
           error, creating, cancelRef, latest, fetches, createOp, selects, patches,
           downloads, effectPending, op, arg, calls, net >>

(***************************************************************************)
(* Bounds of the model.                                                    *)
(***************************************************************************)
MaxFetches == 3     \* session-list requests whose continuation has not run yet
MaxInFlight == 2    \* requests of all kinds outstanding at once
MaxOver    == 1     \* by how much the long message exceeds the title limit

(***************************************************************************)
(* Values.                                                                 *)
(***************************************************************************)
Null     == << "null" >>            \* null / undefined of a string-valued field
Empty    == << >>                   \* ""
NewChat  == << "N", "e", "w", " ", "C", "h", "a", "t" >>
TripPlan == << "T", "r", "i", "p", " ", "p", "l", "a", "n" >>
Hi       == << "H", "i" >>
ErrorMsg == "Could not load sessions"
NoError  == "null"
NoUser   == "none"
Users    == { "u1", "u2" }
NoSelection == 0                    \* currentSessionId null (or 0): falsy
NoSid    == 0                       \* res.data?.session_id undefined (or 0): falsy
NewSid   == 3                       \* the id the server assigns to a created session
TitleLimit == 40

Alphabet == << "a", "b", "c", "d", "e", "f", "g" >>
LongMsg(n) == [ i \in 1..n |-> Alphabet[((i - 1) % Len(Alphabet)) + 1] ]

Messages == { Null, NewChat, LongMsg(TitleLimit), LongMsg(TitleLimit + MaxOver) }

S(id, title, created) == [ session_id |-> id, title |-> title, created_at |-> created ]

\* A response body: what res.data holds.
ArrayBody(items) == [ kind |-> "array", items |-> items ]
NullBody         == [ kind |-> "null", items |-> << >> ]    \* null / undefined / ""
ObjectBody       == [ kind |-> "object", items |-> << >> ]  \* a truthy non-sequence

SessionLists == {
    << >>,
    << S(1, Null, "t1"), S(2, TripPlan, "t2") >>,
    << S(2, NewChat, "t2"), S(1, Empty, "absent") >> }
FetchBodies == { ArrayBody(l) : l \in SessionLists } \cup { ObjectBody }

M(role, content) == [ role |-> role, content |-> content ]
MessageLists == { << >>, << M("user", Hi), M("assistant", TripPlan) >> }
MessageBodies == { ArrayBody(l) : l \in MessageLists } \cup { NullBody, ObjectBody }

Idle == [ stage |-> "idle", user |-> NoUser, sid |-> NoSid, fetch |-> 0 ]

SessionIds == { 1, 2 }

Formats == { "pdf", "docx", "csv" }

(***************************************************************************)
(* Pure helpers of the handlers.                                           *)
(***************************************************************************)
Min(a, b) == IF a < b THEN a ELSE b

\* String.prototype.slice(start, end) for 0 <= start <= end
Slice(s, start, end) == SubSeq(s, start + 1, Min(end, Len(s)))

\* !x for a string-or-null value
Falsy(s) == s = Null \/ s = Empty

\* faulty variant: the identity test is dropped
AbsentNever(u) == FALSE

\* !userId
Absent(u) == u = NoUser

\* faulty variant: the selection test is dropped
NoSessionNever(id) == FALSE

\* !currentSessionId
NoSession(id) == id = NoSelection

\* faulty variant: no response is taken for a list
IsArrayNever(body) == FALSE

\* Array.isArray(res.data)
IsArray(body) == body.kind = "array"

\* sessions.find((s) => s.session_id === id): index of the first match, 0 if none
RECURSIVE FindFrom(_, _, _)
FindFrom(list, id, i) ==
    IF i > Len(list) THEN 0
    ELSE IF list[i].session_id = id THEN i
    ELSE FindFrom(list, id, i + 1)
Find(list, id) == FindFrom(list, id, 1)

\* faulty variant: the title test is dropped
TitleEligibleAlways(title) == TRUE

\* session.title === "New Chat" || !session.title
TitleEligible(title) == title = NewChat \/ Falsy(title)

\* faulty variant: the message is not cut
NewTitleUncut(message) == message

\* lastUserMessage.slice(0, 40)
NewTitle(message) == Slice(message, 0, TitleLimit)

\* faulty variant: every entry is retitled
MapTitleAll(list, id, title) == [ i \in 1..Len(list) |-> [ list[i] EXCEPT !.title = title ] ]

\* faulty variant: the retitled entry is rebuilt without its creation time
MapTitleStamped(list, id, title) ==
    [ i \in 1..Len(list) |->
        IF list[i].session_id = id THEN S(id, title, "absent") ELSE list[i] ]

\* prev.map((s) => (s.session_id === id ? { ...s, title: newTitle } : s))
MapTitle(list, id, title) ==
    [ i \in 1..Len(list) |->
        IF list[i].session_id = id THEN [ list[i] EXCEPT !.title = title ] ELSE list[i] ]

\* the guard of the auto-title effect: it issues the patch and writes the title
AutoTitleFires(message, id, list) ==
    /\ ~Falsy(message)
    /\ id # NoSelection
    /\ Find(list, id) # 0
    /\ TitleEligible(list[Find(list, id)].title)

\* (res.data || []).map((m) => ({ role: m.role, text: m.content }))
ToMessages(items) == [ i \in 1..Len(items) |-> [ role |-> items[i].role, text |-> items[i].content ] ]

Call(sid, messages) == [ sessionId |-> sid, messages |-> messages ]

\* faulty variant: the callback is also invoked after the try block
SelectCallsTwice(sid, ok, body) ==
    IF ok /\ body.kind # "object"
    THEN << Call(sid, ToMessages(body.items)), Call(sid, << >>) >>
    ELSE << Call(sid, << >>) >>

\* the callback invocations of handleSelect's continuation; mapping a truthy
\* non-sequence throws inside the try block and lands in the catch
SelectCalls(sid, ok, body) ==
    IF ok /\ body.kind # "object"
    THEN << Call(sid, ToMessages(body.items)) >>
    ELSE << Call(sid, << >>) >>

\* faulty variant: the selection is reported twice
CreateCallsTwice(sid) == << Call(sid, << >>), Call(sid, << >>) >>

\* the callback invocations of handleCreate's continuation after the refresh
CreateCalls(sid) == << Call(sid, << >>) >>

Req(kind, target, body) == [ kind |-> kind, target |-> target, body |-> body ]

\* faulty variant: every rejection is swallowed
IsCancelAlways(f) == TRUE

\* faulty variant: a cancellation is handled as a failure
IsCancelNever(f) == FALSE

\* axios.isCancel(err) for the rejection of request f
IsCancel(f) == f.status = "cancelled"

\* faulty variant: loading is reset at the end of the try block only
SettledLoadingOnSuccess(current, outcome) == IF outcome = "resolved" THEN FALSE ELSE current

\* setLoading(false) of the finally block, whatever ended the try block
SettledLoading(current, outcome) == FALSE

\* faulty variant: the stored request is not cancelled
CancelPreviousSkipped(fs, ref) == fs

\* cancelRef.current?.cancel("new-request"): only a request still in flight is rejected
CancelPrevious(fs, ref) ==
    { IF f.id = ref /\ f.status = "pending" THEN [ f EXCEPT !.status = "cancelled" ] ELSE f
        : f \in fs }

\* faulty variant: a failure keeps the list on screen
FailedListKept(list) == list

\* setSessions([]) of the catch block
FailedList(list) == << >>

\* faulty variant: the new source is not stored
StoredSourceKept(ref, source) == ref

\* cancelRef.current = source
StoredSource(ref, source) == source

(***************************************************************************)
(* Queued work that runs before the next external event.                   *)
(***************************************************************************)
CancelQueued == \E f \in fetches : f.status = "cancelled"
ResumeQueued == createOp.stage = "resume"
Quiet == ~CancelQueued /\ ~ResumeQueued /\ ~effectPending

\* requests outstanding: a cancelled request is no longer outstanding
InFlight ==
    Cardinality({ f \in fetches : f.status = "pending" })
        + (IF createOp.stage = "posting" THEN 1 ELSE 0) + Len(selects) + Len(patches)
        + downloads
\* room for one more request; a request replacing another needs none
Room(replaced) == InFlight - replaced < MaxInFlight

TypeOK ==
    /\ mounted \in BOOLEAN
    /\ userId \in Users \cup { NoUser }
    /\ currentSessionId \in SessionIds \cup { NoSelection }
    /\ lastUserMessage \in Messages
    /\ loading \in BOOLEAN
    /\ error \in { NoError, ErrorMsg }
    /\ creating \in BOOLEAN
    /\ cancelRef \in 0..MaxFetches
    /\ effectPending \in BOOLEAN
    /\ downloads \in 0..MaxInFlight

\* axios.CancelToken.source(): a source distinct from the stored one and from those
\* of the requests whose continuation has not run
FreeIds == { i \in 1..MaxFetches : i # cancelRef /\ \A f \in fetches : f.id # i }
NextId == CHOOSE i \in FreeIds : \A j \in FreeIds : i <= j

(***************************************************************************)
(* fetchSessions, called with the userId of the calling closure.           *)
(***************************************************************************)
FetchSessions(user, by) ==
    IF Absent(user)
    THEN /\ UNCHANGED << cancelRef, latest, fetches, loading, error >>
         /\ net' = << >>
    ELSE /\ FreeIds # { }
         /\ Room((IF by = "create" THEN 1 ELSE 0)
                   + Cardinality({ f \in fetches : f.id = cancelRef /\ f.status = "pending" }))
         /\ cancelRef' = StoredSource(cancelRef, NextId)
         /\ latest' = NextId
         /\ fetches' = CancelPrevious(fetches, cancelRef)
                         \cup { [ id |-> NextId, user |-> user, by |-> by,
                                  status |-> "pending" ] }
         /\ loading' = TRUE
         /\ error' = NoError
         /\ net' = << Req("sessions", user, Null) >>

\* the awaiting handleCreate resumes when its refresh has run to its end
Resumed(f) ==
    IF f.by = "create" /\ createOp.stage = "refreshing" /\ createOp.fetch = f.id
    THEN [ createOp EXCEPT !.stage = "resume" ]
    ELSE createOp

Init ==
    /\ mounted = TRUE
    /\ userId \in Users \cup { NoUser }
    /\ currentSessionId = NoSelection
    /\ lastUserMessage = Null
    /\ sessions = << >>
    /\ creating = FALSE
    /\ createOp = Idle
    /\ selects = << >>
    /\ patches = << >>
    /\ downloads = 0
    /\ effectPending = FALSE
    /\ op = "mount"
    /\ arg = userId
    /\ calls = << >>
    \* the mount effect has called fetchSessions()
    /\ IF Absent(userId)
       THEN /\ cancelRef = 0 /\ latest = 0 /\ fetches = { }
            /\ loading = FALSE /\ error = NoError /\ net = << >>
       ELSE /\ cancelRef = 1 /\ latest = 1
            /\ fetches = { [ id |-> 1, user |-> userId, by |-> "effect", status |-> "pending" ] }
            /\ loading = TRUE /\ error = NoError
            /\ net = << Req("sessions", userId, Null) >>

(***************************************************************************)
(* Property changes made by the embedding application.                     *)
(***************************************************************************)
\* userId changes: the effect of lines 115-117 calls fetchSessions()
SetUser(u) ==
    /\ mounted /\ Quiet
    /\ u # userId
    /\ userId' = u
    /\ FetchSessions(u, "effect")
    /\ op' = "setUser" /\ arg' = u /\ calls' = << >>
    /\ UNCHANGED << downloads, mounted, currentSessionId, lastUserMessage, sessions, creating,
                    createOp, selects, patches, effectPending >>

SetCurrentSessionId(c) ==
    /\ mounted /\ Quiet
    /\ c # currentSessionId
    /\ currentSessionId' = c
    /\ effectPending' = TRUE
    /\ op' = "setCurrentSessionId" /\ arg' = c /\ calls' = << >> /\ net' = << >>
    /\ UNCHANGED << downloads, mounted, userId, lastUserMessage, sessions, loading, error, creating,
                    cancelRef, latest, fetches, createOp, selects, patches >>

SetLastUserMessage(m) ==
    /\ mounted /\ Quiet
    /\ m # lastUserMessage
    /\ lastUserMessage' = m
    /\ effectPending' = TRUE
    /\ op' = "setLastUserMessage" /\ arg' = m /\ calls' = << >> /\ net' = << >>
    /\ UNCHANGED << downloads, mounted, userId, currentSessionId, sessions, loading, error, creating,
                    cancelRef, latest, fetches, createOp, selects, patches >>

\* no effect of the component returns a cleanup function
Unmount ==
    /\ mounted /\ Quiet
    /\ mounted' = FALSE
    /\ op' = "unmount" /\ arg' = Null /\ calls' = << >> /\ net' = << >>
    /\ UNCHANGED << downloads, userId, currentSessionId, lastUserMessage, sessions, loading, error,
                    creating, cancelRef, latest, fetches, createOp, selects, patches,
                    effectPending >>

(***************************************************************************)
(* The continuations of fetchSessions.                                     *)
(***************************************************************************)
\* line 103 and the finally block
FetchResolved(f, body) ==
    /\ Quiet
    /\ f \in fetches /\ f.status = "pending"
    /\ sessions' = (IF IsArray(body) THEN body.items ELSE << >>)
    /\ loading' = SettledLoading(loading, "resolved")
    /\ fetches' = fetches \ { f }
    /\ createOp' = Resumed(f)
    /\ effectPending' = mounted
    /\ op' = "fetchResolved" /\ arg' = [ fetch |-> f.id, user |-> f.user, body |-> body ]
    /\ calls' = << >> /\ net' = << >>
    /\ UNCHANGED << downloads, mounted, userId, currentSessionId, lastUserMessage, error, creating,
                    cancelRef, latest, selects, patches >>

\* the catch block (lines 104-109) and the finally block, for the rejection of f:
\* of a cancelled request at once, of a request in flight as an external event
FetchRejected(f) ==
    /\ f \in fetches
    /\ f.status = "pending" => Quiet
    /\ IF IsCancel(f)
       THEN UNCHANGED << error, sessions, effectPending >>
       ELSE /\ error' = ErrorMsg
            /\ sessions' = FailedList(sessions)
            /\ effectPending' = mounted
    /\ loading' = SettledLoading(loading, f.status)
    /\ fetches' = fetches \ { f }
    /\ createOp' = Resumed(f)
    /\ op' = (IF f.status = "cancelled" THEN "fetchCancelled" ELSE "fetchFailed")
    /\ arg' = [ fetch |-> f.id, user |-> f.user, body |-> NullBody ]
    /\ calls' = << >> /\ net' = << >>
    /\ UNCHANGED << downloads, mounted, userId, currentSessionId, lastUserMessage, creating,
                    cancelRef, latest, selects, patches >>

(***************************************************************************)
(* The auto-title effect (lines 120-134).                                  *)
(***************************************************************************)
AutoTitle ==
    /\ mounted /\ effectPending
    /\ ~CancelQueued /\ ~ResumeQueued
    /\ IF AutoTitleFires(lastUserMessage, currentSessionId, sessions)
       THEN /\ Room(0)
            /\ patches' = Append(patches,
                                 Req("patch", currentSessionId, NewTitle(lastUserMessage)))
            /\ net' = << Req("patch", currentSessionId, NewTitle(lastUserMessage)) >>
            /\ sessions' = MapTitle(sessions, currentSessionId, NewTitle(lastUserMessage))
            \* the mapped list is a new array: the effect's dependency changed
            /\ effectPending' = TRUE
            /\ op' = "autoTitle"
       ELSE /\ UNCHANGED << patches, sessions >>
            /\ net' = << >>
            /\ effectPending' = FALSE
            /\ op' = "autoTitleSkipped"
    /\ arg' = [ id |-> currentSessionId, message |-> lastUserMessage ]
    /\ calls' = << >>
    /\ UNCHANGED << downloads, mounted, userId, currentSessionId, lastUserMessage, loading, error,
                    creating, cancelRef, latest, fetches, createOp, selects >>

\* faulty variant: a failed patch takes the local title back
PatchOutcomeRolledBack(list, patch, ok) ==
    IF ok THEN list ELSE MapTitle(list, patch.target, NewChat)

\* .catch(err => console.warn(...)): the list is whatever it was
PatchOutcome(list, patch, ok) == list

\* the patch request ends; a failure is only logged (line 128)
PatchSettled(i, ok) ==
    /\ ~CancelQueued /\ ~ResumeQueued
    /\ i \in 1..Len(patches)
    /\ patches' = SubSeq(patches, 1, i - 1) \o SubSeq(patches, i + 1, Len(patches))
    /\ op' = (IF ok THEN "patchDone" ELSE "patchFailed")
    /\ sessions' = PatchOutcome(sessions, patches[i], ok)
    /\ arg' = patches[i] /\ calls' = << >> /\ net' = << >>
    /\ UNCHANGED << downloads, mounted, userId, currentSessionId, lastUserMessage, loading,
                    error, creating, cancelRef, latest, fetches, createOp, selects,
                    effectPending >>

(***************************************************************************)
(* handleSelect (lines 137-146), clicked on a rendered session button      *)
(* (lines 203-223).                                                        *)
(***************************************************************************)
HandleSelect(sid) ==
    /\ mounted /\ Quiet
    /\ ~loading /\ error = NoError
    /\ Find(sessions, sid) # 0
    /\ Room(0)
    /\ selects' = Append(selects, sid)
    /\ op' = "select" /\ arg' = sid /\ calls' = << >>
    /\ net' = << Req("messages", sid, Null) >>
    /\ UNCHANGED << downloads, mounted, userId, currentSessionId, lastUserMessage, sessions, loading,
                    error, creating, cancelRef, latest, fetches, createOp, patches,
                    effectPending >>

SelectSettled(i, ok, body) ==
    /\ Quiet
    /\ i \in 1..Len(selects)
    /\ selects' = SubSeq(selects, 1, i - 1) \o SubSeq(selects, i + 1, Len(selects))
    /\ calls' = SelectCalls(selects[i], ok, body)
    /\ op' = (IF ok THEN "selectResolved" ELSE "selectRejected")
    /\ arg' = [ sid |-> selects[i], body |-> body ]
    /\ net' = << >>
    /\ UNCHANGED << downloads, mounted, userId, currentSessionId, lastUserMessage, sessions, loading,
                    error, creating, cancelRef, latest, fetches, createOp, patches,
                    effectPending >>

(***************************************************************************)
(* handleCreate (lines 149-171), clicked on a button that is disabled      *)
(* while creating (lines 183-184).                                         *)
(***************************************************************************)
HandleCreate ==
    /\ mounted /\ Quiet
    /\ ~creating
    /\ createOp.stage = "idle"
    /\ IF Absent(userId)
       THEN /\ UNCHANGED << creating, createOp >>
            /\ net' = << >>
       ELSE /\ Room(0)
            /\ creating' = TRUE
            /\ createOp' = [ Idle EXCEPT !.stage = "posting", !.user = userId ]
            /\ net' = << Req("create", userId, NewChat) >>
    /\ op' = "create" /\ arg' = userId /\ calls' = << >>
    /\ UNCHANGED << downloads, mounted, userId, currentSessionId, lastUserMessage, sessions, loading,
                    error, cancelRef, latest, fetches, selects, patches, effectPending >>

\* the creation request ends: lines 161-165, or the catch and finally blocks
CreateSettled(ok, sid) ==
    /\ Quiet
    /\ createOp.stage = "posting"
    /\ IF ok /\ sid # NoSid
       THEN /\ FetchSessions(createOp.user, "create")
            /\ createOp' = [ createOp EXCEPT !.stage = "refreshing", !.sid = sid,
                                             !.fetch = NextId ]
            /\ UNCHANGED creating
       ELSE /\ creating' = FALSE
            /\ createOp' = Idle
            /\ net' = << >>
            /\ UNCHANGED << cancelRef, latest, fetches, loading, error >>
    /\ op' = (IF ok THEN "createResolved" ELSE "createRejected")
    /\ arg' = sid /\ calls' = << >>
    /\ UNCHANGED << downloads, mounted, userId, currentSessionId, lastUserMessage, sessions, selects,
                    patches, effectPending >>

\* after "await fetchSessions()": line 164 and the finally block
CreateResumed ==
    /\ ResumeQueued /\ ~CancelQueued
    /\ calls' = CreateCalls(createOp.sid)
    /\ creating' = FALSE
    /\ createOp' = Idle
    /\ op' = "createResumed" /\ arg' = createOp.sid /\ net' = << >>
    /\ UNCHANGED << downloads, mounted, userId, currentSessionId, lastUserMessage, sessions, loading,
                    error, cancelRef, latest, fetches, selects, patches, effectPending >>

(***************************************************************************)
(* handleDownload (lines 59-90).  The handler's own test of the selection  *)
(* is modelled, not the rendering condition of its menu.                   *)
(***************************************************************************)
HandleDownload(format) ==
    /\ mounted /\ Quiet
    /\ IF NoSession(currentSessionId)
       THEN \* alert("Please select a chat session to download.")
            /\ UNCHANGED downloads
            /\ net' = << >>
       ELSE /\ Room(0)
            /\ downloads' = downloads + 1
            /\ net' = << Req("download", currentSessionId, format) >>
    /\ op' = "download" /\ arg' = format /\ calls' = << >>
    /\ UNCHANGED << mounted, userId, currentSessionId, lastUserMessage, sessions, loading,
                    error, creating, cancelRef, latest, fetches, createOp, selects,
                    patches, effectPending >>

\* the transcript request ends: the blob is saved (lines 70-84), or the failure is
\* reported by an alert (lines 86-89)
DownloadSettled(ok) ==
    /\ Quiet
    /\ downloads > 0
    /\ downloads' = downloads - 1
    /\ op' = (IF ok THEN "downloadSaved" ELSE "downloadFailed")
    /\ arg' = Null /\ calls' = << >> /\ net' = << >>
    /\ UNCHANGED << mounted, userId, currentSessionId, lastUserMessage, sessions, loading,
                    error, creating, cancelRef, latest, fetches, createOp, selects,
                    patches, effectPending >>

Next ==
    \/ \E u \in Users \cup { NoUser } : SetUser(u)
    \/ \E c \in SessionIds \cup { NoSelection } : SetCurrentSessionId(c)
    \/ \E m \in Messages : SetLastUserMessage(m)
    \/ Unmount
    \/ \E f \in fetches, body \in FetchBodies : FetchResolved(f, body)
    \/ \E f \in fetches : FetchRejected(f)
    \/ AutoTitle
    \/ \E i \in 1..MaxInFlight, ok \in BOOLEAN : PatchSettled(i, ok)
    \/ \E sid \in SessionIds : HandleSelect(sid)
    \/ \E i \in 1..MaxInFlight, body \in MessageBodies : SelectSettled(i, TRUE, body)
    \/ \E i \in 1..MaxInFlight : SelectSettled(i, FALSE, NullBody)
    \/ HandleCreate
    \/ \E sid \in { NoSid, NewSid } : CreateSettled(TRUE, sid)
    \/ CreateSettled(FALSE, NoSid)
    \/ CreateResumed
    \/ \E format \in Formats : HandleDownload(format)
    \/ \E ok \in BOOLEAN : DownloadSettled(ok)

Spec == Init /\ [][Next]_vars

(***************************************************************************)
(* Properties.                                                             *)
(***************************************************************************)
Pending == { f \in fetches : f.status = "pending" }
FetchWrote == op \in { "fetchResolved", "fetchFailed" }
Custom(title) == title # Null /\ title # Empty /\ title # NewChat
Prefix(s, n) == IF Len(s) > n THEN [ i \in 1..n |-> s[i] ] ELSE s

\* C1: last fetch wins.  A continuation of fetchSessions that writes sessions
\* (a response, or a real failure) belongs to the most recently issued
\* request; a superseded request ends as a cancellation and writes nothing.
LastFetchWins ==
    /\ FetchWrote => arg.fetch = latest
    /\ \A f \in fetches : f.id # latest => f.status = "cancelled"

\* a superseded request has just ended while the request that superseded it is in flight
SupersededEnded ==
    /\ op = "fetchCancelled"
    /\ \E f \in Pending : f.id = latest

\* C2: the end of a cancelled fetchSessions() call leaves error and sessions
\* as they were.
CancellationIsSilent ==
    [][ \A f \in fetches :
          (f.status = "cancelled" /\ f \notin fetches')
              => (error' = error /\ sessions' = sessions) ]_vars

\* a cancelled call has ended over a populated list, with no error shown
CancelledOverList ==
    /\ op = "fetchCancelled"
    /\ sessions # << >>
    /\ error = NoError

TitleIsPrefix ==
    op = "autoTitle" =>
        /\ net = << Req("patch", currentSessionId, Prefix(lastUserMessage, TitleLimit)) >>
        /\ \E i \in 1..Len(sessions) :
             /\ sessions[i].session_id = currentSessionId
             /\ sessions[i].title = Prefix(lastUserMessage, TitleLimit)

\* the effect fired for a message longer than the limit
LongMessageTitled ==
    /\ op = "autoTitle"
    /\ Len(lastUserMessage) > TitleLimit
    /\ \E i \in 1..Len(sessions) : Len(sessions[i].title) = TitleLimit

\* C6: handleCreate without a user identity issues no request, does not
\* invoke the selection callback and leaves the state as it was.
CreateWithoutUserIsNoOp ==
    [][ (op' = "create" /\ userId = NoUser) =>
          /\ net' = << >>
          /\ calls' = << >>
          /\ UNCHANGED << sessions, loading, error, creating, fetches, cancelRef,
                          createOp, selects, patches >> ]_vars

\* handleCreate has run without a user identity
CreatedWithoutUser ==
    /\ op = "create"
    /\ userId = NoUser
    /\ arg = NoUser

\* C7: a real failure of fetchSessions() sets the generic error and empties
\* the list; a success replaces the list by the returned sequence (by the
\* empty list when the body is not a sequence) and leaves no error.
FetchOutcomeWritten ==
    /\ op = "fetchFailed" => (error = ErrorMsg /\ sessions = << >>)
    /\ op = "fetchResolved" =>
         /\ error = NoError
         /\ arg.body.kind = "array" => sessions = arg.body.items
         /\ arg.body.kind # "array" => sessions = << >>

\* a real failure has ended a request: the error is shown over an empty list
FetchFailedShown ==
    /\ op = "fetchFailed"
    /\ error = ErrorMsg
    /\ sessions = << >>

\* C8: every continuation of fetchSessions() (success, real failure,
\* swallowed cancellation) leaves loading false, so loading is false once no
\* issued request is left.
LoadingResetOnEveryOutcome ==
    /\ op \in { "fetchResolved", "fetchFailed", "fetchCancelled" } => ~loading
    /\ fetches = { } => ~loading

\* a swallowed cancellation has ended and left loading false
CancelledResetLoading ==
    /\ op = "fetchCancelled"
    /\ ~loading

\* what a state shows of handleCreate's protocol
CreateProtocol ==
    /\ (op = "createResolved" /\ arg # NoSid) =>
         /\ Len(net) = 1 /\ net[1].kind = "sessions" /\ net[1].target = createOp.user
         /\ calls = << >>
         /\ createOp.stage = "refreshing" /\ createOp.sid = arg
         /\ \E f \in Pending : f.id = createOp.fetch /\ f.by = "create"
    /\ createOp.stage = "refreshing" =>
         /\ creating
         /\ \E f \in fetches : f.id = createOp.fetch
         /\ \A i \in 1..Len(calls) : calls[i].sessionId # createOp.sid
    /\ op \in { "createRejected", "createResolved" } /\ createOp.stage # "refreshing" =>
         (net = << >> /\ calls = << >> /\ createOp = Idle)
    /\ op = "createResumed" =>
         /\ calls = << [ sessionId |-> arg, messages |-> << >> ] >>
         /\ arg = NewSid
         /\ createOp = Idle
         /\ \A f \in fetches : f.by # "create"
    /\ (\E i \in 1..Len(calls) : calls[i].sessionId = NewSid) => op = "createResumed"

\* C9: a created session id starts a refresh and leaves the list as it is
\* (no local append); the selection callback is invoked once, with the new
\* id and no messages, only when that refresh has run to its end; a failed
\* creation starts no refresh and invokes no callback.
CreateRefreshesThenSelects ==
    [][ /\ CreateProtocol'
        /\ op' \in { "createResolved", "createRejected", "createResumed" } =>
             sessions' = sessions ]_vars

\* the creation of a session has reported the new id after its refresh
CreatedThenSelected ==
    /\ op = "createResumed"
    /\ calls = << [ sessionId |-> NewSid, messages |-> << >> ] >>
    /\ ~creating

\* C10: once the component is unmounted no session-list request is left in
\* flight, and no continuation of fetchSessions() writes its outcome.
UnmountCancelsFetch ==
    ~mounted => (Pending = { } /\ ~FetchWrote)

\* C11: a change of the user identity re-creates the list by a fetch for the
\* new identity (a request for it is the one in flight after the change),
\* and no list fetched for another identity arrives in state afterwards.
IdentityChangeRefetches ==
    /\ op = "setUser" => \E f \in Pending : f.id = latest /\ f.user = userId
    /\ op = "fetchResolved" => arg.user = userId

(***************************************************************************)
(* The worked example: the sidebar of user u1, whose list is               *)
(* [{1, null}, {2, "Trip plan"}], and the message about the weather.       *)
(***************************************************************************)
Weather ==
    << "W", "h", "a", "t", "'", "s", " ", "t", "h", "e", " ", "w",
       "e", "a", "t", "h", "e", "r", " ", "t", "o", "m", "o", "r",
       "r", "o", "w", " ", "i", "n", " ", "Y", "a", "n", "g", "o",
       "n", " ", "a", "n", "d", " ", "w", "i", "l", "l", " ", "i",
       "t", " ", "r", "a", "i", "n", " ", "a", "l", "l", " ", "w",
       "e", "e", "k", " ", "l", "o", "n", "g" >>
\* the first 40 characters of the message
WeatherCut ==
    << "W", "h", "a", "t", "'", "s", " ", "t", "h", "e", " ", "w",
       "e", "a", "t", "h", "e", "r", " ", "t", "o", "m", "o", "r",
       "r", "o", "w", " ", "i", "n", " ", "Y", "a", "n", "g", "o",
       "n", " ", "a", "n" >>
\* the title the example states
WeatherStated ==
    << "W", "h", "a", "t", "'", "s", " ", "t", "h", "e", " ", "w",
       "e", "a", "t", "h", "e", "r", " ", "t", "o", "m", "o", "r",
       "r", "o", "w", " ", "i", "n", " ", "Y", "a", "n", "g", "o",
       "n", " ", "a" >>

ExampleList == << S(1, Null, "t1"), S(2, TripPlan, "t2") >>

ExampleInit ==
    /\ Init
    /\ userId = "u1"

ExampleNext ==
    \/ \E u \in Users \cup { NoUser } : SetUser(u)
    \/ \E c \in SessionIds \cup { NoSelection } : SetCurrentSessionId(c)
    \/ \E m \in { Null, Weather } : SetLastUserMessage(m)
    \/ \E f \in fetches : FetchResolved(f, ArrayBody(ExampleList))
    \/ \E f \in fetches : FetchRejected(f)
    \/ AutoTitle
    \/ \E i \in 1..MaxInFlight, ok \in BOOLEAN : PatchSettled(i, ok)
    \/ \E sid \in SessionIds : HandleSelect(sid)
    \/ \E i \in 1..MaxInFlight, body \in MessageBodies : SelectSettled(i, TRUE, body)

ExampleSpec == ExampleInit /\ [][ExampleNext]_vars

\* C12 (as amended): in the example, when the effect fires for session 1 with
\* the weather message, session 1 is titled with the first 40 characters,
\* "What's the weather tomorrow in Yangon an", and session 2 keeps "Trip plan".
WorkedExample ==
    (op = "autoTitle" /\ currentSessionId = 1 /\ lastUserMessage = Weather) =>
        sessions = << S(1, WeatherCut, "t1"), S(2, TripPlan, "t2") >>

\* C12 (as stated): the resulting title of session 1 is
\* "What's the weather tomorrow in Yangon a".
WorkedExampleAsStated ==
    (op = "autoTitle" /\ currentSessionId = 1 /\ lastUserMessage = Weather) =>
        sessions = << S(1, WeatherStated, "t1"), S(2, TripPlan, "t2") >>

\* the effect has fired for session 1 of the example with the weather message
ExampleTitled ==
    /\ op = "autoTitle"
    /\ currentSessionId = 1
    /\ lastUserMessage = Weather
    /\ Len(sessions) = 2
    /\ sessions[2].title = TripPlan

\* C13: handleDownload issues no request when no session is selected and
\* exactly one request, for the selected session and the format, otherwise;
\* the end of that request, saved or failed, issues none; the session list,
\* loading, error and creating are left as they were throughout.
DownloadIsOneRequest ==
    [][ /\ op' = "download" =>
             /\ arg' \in Formats
             /\ currentSessionId = NoSelection => (net' = << >> /\ downloads' = downloads)
             /\ currentSessionId # NoSelection =>
                  /\ net' = << [ kind |-> "download", target |-> currentSessionId,
                                 body |-> arg' ] >>
                  /\ downloads' = downloads + 1
        /\ op' \in { "downloadSaved", "downloadFailed" } =>
             (net' = << >> /\ downloads' = downloads - 1)
        /\ op' \in { "download", "downloadSaved", "downloadFailed" } =>
             UNCHANGED << sessions, loading, error, creating >> ]_vars

\* a download has failed after a session was selected and its transcript requested
DownloadFailedOnce ==
    /\ op = "downloadFailed"
    /\ currentSessionId # NoSelection
    /\ downloads = 0
    /\ net = << >>

\* the case without a selection: the handler ran and issued nothing
DownloadPrompted ==
    /\ op = "download"
    /\ currentSessionId = NoSelection
    /\ net = << >>

\* C14: at most one session-list fetch is outstanding and not cancelled, and
\* it is the one whose handle is stored; a step that issues the request has
\* cancelled the fetch stored before it and stored the new handle.
AtMostOneFetch ==
    /\ Cardinality(Pending) <= 1
    /\ \A f \in Pending : f.id = cancelRef
    /\ (net # << >> /\ net[1].kind = "sessions") =>
         /\ \E f \in Pending : f.id = cancelRef /\ f.user = net[1].target
         /\ \A f \in fetches : f.id # cancelRef => f.status = "cancelled"

\* a fetch was started while another was in flight: the older one is cancelled,
\* the newer one is the only one outstanding
FetchReplaced ==
    /\ net # << >> /\ net[1].kind = "sessions"
    /\ CancelQueued
    /\ Cardinality(Pending) = 1

\* C15: the step in which auto-title fires both issues the patch and writes
\* the same title to the local entry, with the patch still in flight after
\* it; the end of a patch, failed or not, leaves sessions and error as they
\* were.
OptimisticTitle ==
    [][ /\ op' = "autoTitle" =>
             /\ Len(net') = 1 /\ net'[1].kind = "patch"
             /\ patches' = Append(patches, net'[1])
             /\ \E i \in 1..Len(sessions') :
                  /\ sessions'[i].session_id = net'[1].target
                  /\ sessions'[i].title = net'[1].body
        /\ op' \in { "patchDone", "patchFailed" } =>
             /\ sessions' = sessions
             /\ error' = error
             /\ Len(patches') = Len(patches) - 1 ]_vars

\* a patch has failed and the entry still carries the title it asked for
PatchFailedTitleKept ==
    /\ op = "patchFailed"
    /\ error = NoError
    /\ \E i \in 1..Len(sessions) :
         /\ sessions[i].session_id = arg.target
         /\ sessions[i].title = arg.body
         /\ Custom(arg.body)

\* C16: a response to fetchSessions is written whole while title patches are
\* in flight: the patches stay in flight, and every entry, the one a patch is
\* about included, takes the title the response carries.  Nothing orders the
\* refresh after the patch.
RefreshOverwritesTitle ==
    [][ op' = "fetchResolved" =>
          /\ patches' = patches
          /\ arg'.body.kind = "array" => sessions' = arg'.body.items
          /\ arg'.body.kind # "array" => sessions' = << >> ]_vars

\* a refresh has just been issued while a patch is in flight and the entry carries
\* the patch's title, and a response to that refresh can put an older title back
TitleCanBeReverted ==
    /\ net # << >> /\ net[1].kind = "sessions"
    /\ \E k \in 1..Len(patches), i \in 1..Len(sessions) :
         /\ sessions[i].session_id = patches[k].target
         /\ sessions[i].title = patches[k].body
         /\ Custom(patches[k].body)
         /\ \E f \in Pending, body \in FetchBodies :
              /\ f.id = latest
              /\ ENABLED ( /\ FetchResolved(f, body)
                           /\ patches' = patches
                           /\ Len(sessions') >= i
                           /\ sessions'[i].session_id = patches[k].target
                           /\ ~Custom(sessions'[i].title) )

\* the refresh has answered: the patch is still in flight and the entry shows a
\* title that is not the patch's
TitleReverted ==
    /\ op = "fetchResolved"
    /\ \E k \in 1..Len(patches), i \in 1..Len(sessions) :
         /\ sessions[i].session_id = patches[k].target
         /\ Custom(patches[k].body)
         /\ ~Custom(sessions[i].title)

\* C17: a firing of the auto-title effect keeps the length and the order of
\* sessions, every session_id and created_at, and the title of every entry
\* other than the one matching currentSessionId, and issues one patch request,
\* addressed to currentSessionId.
AutoTitleFrame ==
    [][ op' = "autoTitle" =>
          /\ Len(sessions') = Len(sessions)
          /\ \A i \in 1..Len(sessions) :
               /\ sessions'[i].session_id = sessions[i].session_id
               /\ sessions'[i].created_at = sessions[i].created_at
               /\ sessions[i].session_id # currentSessionId =>
                    sessions'[i].title = sessions[i].title
          /\ Len(net') = 1
          /\ net'[1].kind = "patch"
          /\ net'[1].target = currentSessionId
          /\ Len(patches') = Len(patches) + 1 ]_vars

\* the effect has fired on the second entry of a list of two: the first entry
\* still has its own title and both creation times are the server's
SecondEntryTitled ==
    /\ op = "autoTitle"
    /\ Len(sessions) = 2
    /\ sessions[2].session_id = currentSessionId
    /\ Custom(sessions[2].title)
    /\ sessions[1].title = NewChat
    /\ sessions[2].created_at = "absent"

\* C18: while a session-list fetch is in flight and not cancelled, loading is
\* true.
LoadingWhileFetching == Pending # { } => loading

\* C19: a firing of the auto-title effect leaves a list on which the effect,
\* run again with the same message and selection, does not fire.
AutoTitleSettles ==
    op = "autoTitle" => ~AutoTitleFires(lastUserMessage, currentSessionId, sessions)

\* C20: whenever error holds a message, the sessions list is empty.
ErrorMeansEmptyList == error = ErrorMsg => sessions = << >>

\* the failure is still shown after the effect has run over the emptied list
ErrorShownAfterEffect ==
    /\ error = ErrorMsg
    /\ sessions = << >>
    /\ op = "autoTitleSkipped"
    /\ currentSessionId # NoSelection

=============================================================================
